---- MODULE Spec2Model ----
(***************************************************************************)
(* Model of program/src/instruction.rs of audaces-perps: the PerpInstruction *)
(* enum with its Borsh wire encoding, and the eighteen functions that build *)
(* an Instruction (program id, ordered AccountMeta list, payload bytes) from *)
(* a MarketContext and per-call arguments.                                  *)
(*                                                                         *)
(* A Pubkey is modelled as a pair <<name, number>>; a byte string as a      *)
(* sequence of numbers 0..255; an Option as a record with a "some" flag.    *)
(***************************************************************************)
EXTENDS Integers, Sequences, FiniteSets, TLC

VARIABLES ctx, call, result, decoded

vars == <<ctx, call, result, decoded>>

(***************************************************************************)
(* Bounds of the model.                                                    *)
(***************************************************************************)
MaxInstances == 2

MaxPages == 2

(***************************************************************************)
(* Well-known identities.                                                  *)
(***************************************************************************)
Key(name, n) == <<name, n>>

spl_token_id == Key("spl_token", 0)

clock_id == Key("sysvar_clock", 0)

TRADE_LABEL == Key("TRADE_LABEL", 0)

LIQUIDATION_LABEL == Key("LIQUIDATION_LABEL", 0)

FUNDING_LABEL == Key("FUNDING_LABEL", 0)

FUNDING_EXTRACTION_LABEL == Key("FUNDING_EXTRACTION_LABEL", 0)

(***************************************************************************)
(* Option<T>.                                                              *)
(***************************************************************************)
None == [some |-> FALSE]

Some(x) == [some |-> TRUE, val |-> x]

(***************************************************************************)
(* AccountMeta and its two constructors.                                   *)
(***************************************************************************)
AccountMeta_new(pubkey, is_signer) ==
    [pubkey |-> pubkey, is_signer |-> is_signer, is_writable |-> TRUE]

AccountMeta_new_readonly(pubkey, is_signer) ==
    [pubkey |-> pubkey, is_signer |-> is_signer, is_writable |-> FALSE]

(***************************************************************************)
(* Outcome of a call: the returned Instruction, or the panic raised by an  *)
(* out-of-range slice index (the functions return Instruction, not Result).*)
(***************************************************************************)
Instruction(program_id, accounts, data) ==
    [kind |-> "Instruction", program_id |-> program_id,
     accounts |-> accounts, data |-> data]

IndexPanic(len, index) ==
    [kind |-> "panic", msg |-> "index out of bounds", len |-> len, index |-> index]

NotCalled == [kind |-> "none"]

\* Result::unwrap on an Err: the call stops with a panic that shows the error
UnwrapPanic(e) ==
    [kind |-> "panic", msg |-> "called Result::unwrap() on an Err value",
     err |-> e]

\* let data = instruction_data.try_to_vec().unwrap(); ...
\* Instruction { program_id, accounts, data }
Instruction_unwrap(program_id, accounts, r) ==
    IF r.ok THEN Instruction(program_id, accounts, r.val) ELSE UnwrapPanic(r.err)

(***************************************************************************)
(* Borsh scalar encodings: fixed-width little-endian integers, a String as *)
(* a u32 length followed by its bytes, a fieldless enum as its variant     *)
(* index in one byte.  Writing the length of a String fails when it does   *)
(* not fit a u32 (u32::try_from(len), ErrorKind::InvalidInput).            *)
(*                                                                         *)
(* A String is modelled by its UTF-8 bytes.  One of more than u32::MAX     *)
(* bytes cannot be written out: LongString stands for any such String; it  *)
(* holds, in place of bytes, the one entry TooLong, which is not a byte.   *)
(***************************************************************************)
TooLong == 256

LongString == <<TooLong>>

len_fits_u32(x) == x # LongString

EncodeOk(bytes) == [ok |-> TRUE, val |-> bytes]

EncodeErr(why) == [ok |-> FALSE, err |-> why]

RECURSIVE to_le_bytes(_, _)
to_le_bytes(x, n) ==
    IF n = 0 THEN <<>> ELSE <<x % 256>> \o to_le_bytes(x \div 256, n - 1)

RECURSIVE from_le_bytes(_)
from_le_bytes(b) ==
    IF Len(b) = 0 THEN 0 ELSE b[1] + 256 * from_le_bytes(Tail(b))

PositionTypeVariants == <<"Short", "Long">>

PositionType_index(side) ==
    CHOOSE i \in 1..Len(PositionTypeVariants) : PositionTypeVariants[i] = side

TypeWidth(ty) ==
    CASE ty = "u8" -> 1
      [] ty = "u16" -> 2
      [] ty = "u64" -> 8

\* a String written with a one-byte length
serialize_field_short_len(ty, x) ==
    CASE ty = "String" ->
            IF ~len_fits_u32(x) THEN EncodeErr("InvalidInput")
            ELSE EncodeOk(to_le_bytes(Len(x), 1) \o x)
      [] ty = "PositionType" -> EncodeOk(<<PositionType_index(x) - 1>>)
      [] OTHER -> EncodeOk(to_le_bytes(x, TypeWidth(ty)))

serialize_field(ty, x) ==
    CASE ty = "String" ->
            IF ~len_fits_u32(x) THEN EncodeErr("InvalidInput")
            ELSE EncodeOk(to_le_bytes(Len(x), 4) \o x)
      [] ty = "PositionType" -> EncodeOk(<<PositionType_index(x) - 1>>)
      [] OTHER -> EncodeOk(to_le_bytes(x, TypeWidth(ty)))

(***************************************************************************)
(* enum PerpInstruction: the variants in declaration order, and the fields *)
(* of each variant in declaration order (name, type).                      *)
(***************************************************************************)
PerpInstructionVariants ==
    << "CreateMarket", "AddInstance", "UpdateOracleAccount", "OpenPosition",
       "AddBudget", "WithdrawBudget", "IncreasePosition", "ClosePosition",
       "CollectGarbage", "CrankLiquidation", "CrankFunding", "FundingExtraction",
       "ChangeK", "CloseAccount", "AddPage", "Rebalance", "TransferUserAccount",
       "TransferPosition" >>

\* the fields of IncreasePosition in the order increase_position names them
\* when it builds the value
IncreasePositionFields_call_order ==
    << <<"instance_index", "u8">>, <<"add_collateral", "u64">>,
       <<"position_index", "u16">>, <<"leverage", "u64">>,
       <<"predicted_entry_price", "u64">>,
       <<"maximum_slippage_margin", "u64">> >>

\* the fields of IncreasePosition, as the enum declares them
IncreasePositionFields ==
    << <<"add_collateral", "u64">>, <<"instance_index", "u8">>,
       <<"leverage", "u64">>, <<"position_index", "u16">>,
       <<"predicted_entry_price", "u64">>,
       <<"maximum_slippage_margin", "u64">> >>

VariantFields(tag) ==
    CASE tag = "CreateMarket" ->
            << <<"signer_nonce", "u8">>, <<"market_symbol", "String">>,
               <<"initial_v_pc_amount", "u64">>, <<"coin_decimals", "u8">>,
               <<"quote_decimals", "u8">> >>
      [] tag = "OpenPosition" ->
            << <<"side", "PositionType">>, <<"collateral", "u64">>,
               <<"instance_index", "u8">>, <<"leverage", "u64">>,
               <<"predicted_entry_price", "u64">>,
               <<"maximum_slippage_margin", "u64">> >>
      [] tag = "AddBudget" -> << <<"amount", "u64">> >>
      [] tag = "WithdrawBudget" -> << <<"amount", "u64">> >>
      [] tag = "IncreasePosition" -> IncreasePositionFields
      [] tag = "ClosePosition" ->
            << <<"position_index", "u16">>, <<"closing_collateral", "u64">>,
               <<"closing_v_coin", "u64">>, <<"predicted_entry_price", "u64">>,
               <<"maximum_slippage_margin", "u64">> >>
      [] tag = "CollectGarbage" ->
            << <<"instance_index", "u8">>, <<"max_iterations", "u64">> >>
      [] tag = "CrankLiquidation" -> << <<"instance_index", "u8">> >>
      [] tag = "FundingExtraction" -> << <<"instance_index", "u8">> >>
      [] tag = "ChangeK" -> << <<"factor", "u64">> >>
      [] tag = "AddPage" -> << <<"instance_index", "u8">> >>
      [] tag = "Rebalance" ->
            << <<"collateral", "u64">>, <<"instance_index", "u8">> >>
      [] tag = "TransferPosition" -> << <<"position_index", "u16">> >>
      [] OTHER -> << >>

VariantIndex(tag) ==
    (CHOOSE i \in 1..Len(PerpInstructionVariants) :
        PerpInstructionVariants[i] = tag) - 1

RECURSIVE serialize_fields(_, _)
serialize_fields(fields, v) ==
    IF Len(fields) = 0 THEN EncodeOk(<<>>)
    ELSE LET first == serialize_field(fields[1][2], v[fields[1][1]]) IN
         IF ~first.ok THEN first
         ELSE LET others == serialize_fields(Tail(fields), v) IN
              IF ~others.ok THEN others
              ELSE EncodeOk(first.val \o others.val)

\* BorshSerialize::try_to_vec of a PerpInstruction value: the first field
\* that cannot be written makes it an Err.
try_to_vec(v) ==
    LET r == serialize_fields(VariantFields(v.tag), v) IN
    IF ~r.ok THEN r ELSE EncodeOk(<<VariantIndex(v.tag)>> \o r.val)

(***************************************************************************)
(* The derived BorshDeserialize, read from a slice: every read fails when  *)
(* the input is too short, an enum fails on an unknown variant index, and  *)
(* try_from_slice fails when bytes are left over.  The bytes of a String   *)
(* go through String::from_utf8, which fails on the first sequence that is *)
(* not UTF-8 and reports where it starts (valid_up_to) and how many bytes  *)
(* of it were read (error_len; 0 stands for None, the input ending inside  *)
(* the sequence).                                                          *)
(***************************************************************************)
DecodeErr(why) == [ok |-> FALSE, err |-> why]

DecodeOk(val, rest) == [ok |-> TRUE, val |-> val, rest |-> rest]

utf8_char_width(first) ==
    IF first < 128 THEN 1
    ELSE IF first >= 194 /\ first <= 223 THEN 2
    ELSE IF first >= 224 /\ first <= 239 THEN 3
    ELSE IF first >= 240 /\ first <= 244 THEN 4
    ELSE 0

utf8_is_continuation(byte) == byte >= 128 /\ byte <= 191

\* the ranges allowed to the second byte of a sequence of three or four bytes
utf8_second_byte_ok(first, second) ==
    \/ first = 224 /\ second >= 160 /\ second <= 191
    \/ first >= 225 /\ first <= 236 /\ utf8_is_continuation(second)
    \/ first = 237 /\ second >= 128 /\ second <= 159
    \/ first >= 238 /\ first <= 239 /\ utf8_is_continuation(second)
    \/ first = 240 /\ second >= 144 /\ second <= 191
    \/ first >= 241 /\ first <= 243 /\ utf8_is_continuation(second)
    \/ first = 244 /\ second >= 128 /\ second <= 143

Utf8Error(valid_up_to, error_len) ==
    [ok |-> FALSE, valid_up_to |-> valid_up_to, error_len |-> error_len]

Utf8Incomplete(valid_up_to) ==
    [ok |-> FALSE, valid_up_to |-> valid_up_to, error_len |-> 0]

\* i is the number of bytes already accepted
RECURSIVE run_utf8_validation(_, _)
run_utf8_validation(v, i) ==
    IF i >= Len(v) THEN [ok |-> TRUE]
    ELSE LET first == v[i + 1]
             w == utf8_char_width(first)
         IN IF w = 1 THEN run_utf8_validation(v, i + 1)
            ELSE IF w = 0 THEN Utf8Error(i, 1)
            ELSE IF i + 1 >= Len(v) THEN Utf8Incomplete(i)
            ELSE IF w = 2
                 THEN IF ~utf8_is_continuation(v[i + 2]) THEN Utf8Error(i, 1)
                      ELSE run_utf8_validation(v, i + 2)
            ELSE IF ~utf8_second_byte_ok(first, v[i + 2]) THEN Utf8Error(i, 1)
            ELSE IF i + 2 >= Len(v) THEN Utf8Incomplete(i)
            ELSE IF ~utf8_is_continuation(v[i + 3]) THEN Utf8Error(i, 2)
            ELSE IF w = 3 THEN run_utf8_validation(v, i + 3)
            ELSE IF i + 3 >= Len(v) THEN Utf8Incomplete(i)
            ELSE IF ~utf8_is_continuation(v[i + 4]) THEN Utf8Error(i, 3)
            ELSE run_utf8_validation(v, i + 4)

\* the text of the error String::from_utf8 returns
Utf8ErrorMessage(e) ==
    IF e.error_len = 0
    THEN "incomplete utf-8 byte sequence from index " \o ToString(e.valid_up_to)
    ELSE "invalid utf-8 sequence of " \o ToString(e.error_len)
             \o " bytes from index " \o ToString(e.valid_up_to)

\* String::from_utf8 on the bytes read for a String field
String_from_utf8(v, rest) ==
    LET r == run_utf8_validation(v, 0) IN
    IF r.ok THEN DecodeOk(v, rest) ELSE DecodeErr(Utf8ErrorMessage(r))

deserialize_field(ty, b) ==
    CASE ty = "String" ->
            IF Len(b) < 4 THEN DecodeErr("Unexpected length of input")
            ELSE LET n == from_le_bytes(SubSeq(b, 1, 4)) IN
                 IF Len(b) - 4 < n THEN DecodeErr("Unexpected length of input")
                 ELSE String_from_utf8(SubSeq(b, 5, 4 + n),
                                       SubSeq(b, 5 + n, Len(b)))
      [] ty = "PositionType" ->
            IF Len(b) < 1 THEN DecodeErr("Unexpected length of input")
            ELSE IF b[1] >= Len(PositionTypeVariants)
                 THEN DecodeErr("Unexpected variant index")
                 ELSE DecodeOk(PositionTypeVariants[b[1] + 1], Tail(b))
      [] OTHER ->
            IF Len(b) < TypeWidth(ty) THEN DecodeErr("Unexpected length of input")
            ELSE DecodeOk(from_le_bytes(SubSeq(b, 1, TypeWidth(ty))),
                          SubSeq(b, TypeWidth(ty) + 1, Len(b)))

RECURSIVE deserialize_fields(_, _, _)
deserialize_fields(fields, b, acc) ==
    IF Len(fields) = 0 THEN DecodeOk(acc, b)
    ELSE LET r == deserialize_field(fields[1][2], b) IN
         IF ~r.ok THEN r
         ELSE deserialize_fields(Tail(fields), r.rest,
                                 (fields[1][1] :> r.val) @@ acc)

\* BorshDeserialize::try_from_slice for PerpInstruction.
try_from_slice(b) ==
    IF Len(b) < 1 THEN DecodeErr("Unexpected length of input")
    ELSE IF b[1] >= Len(PerpInstructionVariants)
         THEN DecodeErr("Unexpected variant index")
         ELSE LET tag == PerpInstructionVariants[b[1] + 1]
                  r == deserialize_fields(VariantFields(tag), Tail(b),
                                          "tag" :> tag)
              IN IF ~r.ok THEN r
                 ELSE IF Len(r.rest) > 0 THEN DecodeErr("Not all bytes read")
                      ELSE r

(***************************************************************************)
(* Segments shared by the builders.                                        *)
(***************************************************************************)
\* an index check that is off by one and refuses the last instance
instances_index_off_by_one(c, i) ==
    IF i + 1 < Len(c.instances)
    THEN [ok |-> TRUE, val |-> c.instances[i + 1]]
    ELSE [ok |-> FALSE]

\* an index that is clamped to the last instance instead of failing
instances_index_clamped(c, i) ==
    IF Len(c.instances) = 0
    THEN [ok |-> FALSE]
    ELSE [ok |-> TRUE,
          val |-> c.instances[(IF i < Len(c.instances) THEN i
                               ELSE Len(c.instances) - 1) + 1]]

\* ctx.instances[i as usize]: Vec's checked index (0-based); out of range
\* it panics, which the caller of this operator turns into IndexPanic.
instances_index(c, i) ==
    IF i < Len(c.instances)
    THEN [ok |-> TRUE, val |-> c.instances[i + 1]]
    ELSE [ok |-> FALSE]

\* the page loop pushing read-only references
push_pages_readonly(memory_pages) ==
    [k \in 1..Len(memory_pages) |->
        AccountMeta_new_readonly(memory_pages[k], FALSE)]

\* for p in &instance.memory_pages { accounts.push(AccountMeta::new(*p, false)) }
push_pages(memory_pages) ==
    [k \in 1..Len(memory_pages) |-> AccountMeta_new(memory_pages[k], FALSE)]

\* the discount pair pushed owner first
push_discount_owner_first(discount_account_opt) ==
    IF discount_account_opt.some
    THEN << AccountMeta_new_readonly(discount_account_opt.val.owner, TRUE),
            AccountMeta_new_readonly(discount_account_opt.val.address, FALSE) >>
    ELSE << >>

\* the discount pair pushed with the owner's key in both entries
push_discount_owner_twice(discount_account_opt) ==
    IF discount_account_opt.some
    THEN << AccountMeta_new_readonly(discount_account_opt.val.owner, FALSE),
            AccountMeta_new_readonly(discount_account_opt.val.owner, TRUE) >>
    ELSE << >>

\* if let Some(d) = discount_account_opt { push address; push owner }
push_discount(discount_account_opt) ==
    IF discount_account_opt.some
    THEN << AccountMeta_new_readonly(discount_account_opt.val.address, FALSE),
            AccountMeta_new_readonly(discount_account_opt.val.owner, TRUE) >>
    ELSE << >>

\* if let Some(referrer_account) = referrer_account_opt { push referrer }
push_referrer(referrer_account_opt) ==
    IF referrer_account_opt.some
    THEN << AccountMeta_new(referrer_account_opt.val, FALSE) >>
    ELSE << >>

(***************************************************************************)
(* The eighteen construction functions.                                    *)
(***************************************************************************)
create_market(c, market_symbol, initial_v_pc_amount, coin_decimals, quote_decimals) ==
    LET instruction_data ==
            [tag |-> "CreateMarket", signer_nonce |-> c.signer_nonce,
             market_symbol |-> market_symbol,
             initial_v_pc_amount |-> initial_v_pc_amount,
             coin_decimals |-> coin_decimals, quote_decimals |-> quote_decimals]
        accounts ==
            << AccountMeta_new(c.market_account, FALSE),
               AccountMeta_new_readonly(clock_id, FALSE),
               AccountMeta_new_readonly(c.oracle_account, FALSE),
               AccountMeta_new_readonly(c.admin_account, FALSE),
               AccountMeta_new_readonly(c.market_vault, FALSE) >>
    IN Instruction_unwrap(c.audaces_protocol_program_id, accounts,
                   try_to_vec(instruction_data))

update_oracle_account(c, pyth_oracle_mapping_account, pyth_oracle_product_account, pyth_oracle_price_account) ==
    LET accounts ==
            << AccountMeta_new(c.market_account, FALSE),
               AccountMeta_new_readonly(pyth_oracle_mapping_account, FALSE),
               AccountMeta_new_readonly(pyth_oracle_product_account, FALSE),
               AccountMeta_new_readonly(pyth_oracle_price_account, FALSE) >>
    IN Instruction_unwrap(c.audaces_protocol_program_id, accounts,
                   try_to_vec([tag |-> "UpdateOracleAccount"]))

add_instance(c, instance_account, memory_pages) ==
    LET accounts ==
            << AccountMeta_new(c.market_account, FALSE),
               AccountMeta_new(c.admin_account, TRUE),
               AccountMeta_new(instance_account, FALSE) >>
            \o push_pages(memory_pages)
    IN Instruction_unwrap(c.audaces_protocol_program_id, accounts,
                   try_to_vec([tag |-> "AddInstance"]))

add_budget(c, amount, source_owner, source_token_account, open_positions_account) ==
    LET accounts ==
            << AccountMeta_new_readonly(spl_token_id, FALSE),
               AccountMeta_new(c.market_account, FALSE),
               AccountMeta_new(c.market_vault, FALSE),
               AccountMeta_new(open_positions_account, FALSE),
               AccountMeta_new_readonly(source_owner, TRUE),
               AccountMeta_new(source_token_account, FALSE) >>
    IN Instruction_unwrap(c.audaces_protocol_program_id, accounts,
                   try_to_vec([tag |-> "AddBudget", amount |-> amount]))

withdraw_budget(c, amount, target_account, open_positions_owner_account, open_positions_account) ==
    LET accounts ==
            << AccountMeta_new_readonly(spl_token_id, FALSE),
               AccountMeta_new(c.market_account, FALSE),
               AccountMeta_new_readonly(c.market_signer_account, FALSE),
               AccountMeta_new(c.market_vault, FALSE),
               AccountMeta_new_readonly(open_positions_owner_account, TRUE),
               AccountMeta_new(open_positions_account, FALSE),
               AccountMeta_new(target_account, FALSE) >>
    IN Instruction_unwrap(c.audaces_protocol_program_id, accounts,
                   try_to_vec([tag |-> "WithdrawBudget", amount |-> amount]))

\* open_position with the owner and the position account pushed in the
\* opposite order.
open_position_account_first(c, position, collateral, leverage, predicted_entry_price, maximum_slippage_margin, discount_account_opt, referrer_account_opt) ==
    IF ~instances_index(c, position.instance_index).ok
    THEN IndexPanic(Len(c.instances), position.instance_index)
    ELSE
    LET instance == instances_index(c, position.instance_index).val
        instruction_data ==
            [tag |-> "OpenPosition", side |-> position.side,
             collateral |-> collateral,
             instance_index |-> position.instance_index,
             leverage |-> leverage,
             predicted_entry_price |-> predicted_entry_price,
             maximum_slippage_margin |-> maximum_slippage_margin]
        accounts ==
            << AccountMeta_new_readonly(spl_token_id, FALSE),
               AccountMeta_new_readonly(clock_id, FALSE),
               AccountMeta_new(c.market_account, FALSE),
               AccountMeta_new(instance.instance_account, FALSE),
               AccountMeta_new_readonly(c.market_signer_account, FALSE),
               AccountMeta_new(c.market_vault, FALSE),
               AccountMeta_new(c.bonfida_bnb, FALSE),
               AccountMeta_new(position.user_account, FALSE),
               AccountMeta_new_readonly(position.user_account_owner, TRUE),
               AccountMeta_new_readonly(TRADE_LABEL, FALSE),
               AccountMeta_new_readonly(c.oracle_account, FALSE) >>
            \o push_pages(instance.memory_pages)
            \o push_discount(discount_account_opt)
            \o push_referrer(referrer_account_opt)
    IN Instruction_unwrap(c.audaces_protocol_program_id, accounts,
                   try_to_vec(instruction_data))

open_position(c, position, collateral, leverage, predicted_entry_price, maximum_slippage_margin, discount_account_opt, referrer_account_opt) ==
    IF ~instances_index(c, position.instance_index).ok
    THEN IndexPanic(Len(c.instances), position.instance_index)
    ELSE
    LET instance == instances_index(c, position.instance_index).val
        instruction_data ==
            [tag |-> "OpenPosition", side |-> position.side,
             collateral |-> collateral,
             instance_index |-> position.instance_index,
             leverage |-> leverage,
             predicted_entry_price |-> predicted_entry_price,
             maximum_slippage_margin |-> maximum_slippage_margin]
        accounts ==
            << AccountMeta_new_readonly(spl_token_id, FALSE),
               AccountMeta_new_readonly(clock_id, FALSE),
               AccountMeta_new(c.market_account, FALSE),
               AccountMeta_new(instance.instance_account, FALSE),
               AccountMeta_new_readonly(c.market_signer_account, FALSE),
               AccountMeta_new(c.market_vault, FALSE),
               AccountMeta_new(c.bonfida_bnb, FALSE),
               AccountMeta_new_readonly(position.user_account_owner, TRUE),
               AccountMeta_new(position.user_account, FALSE),
               AccountMeta_new_readonly(TRADE_LABEL, FALSE),
               AccountMeta_new_readonly(c.oracle_account, FALSE) >>
            \o push_pages(instance.memory_pages)
            \o push_discount(discount_account_opt)
            \o push_referrer(referrer_account_opt)
    IN Instruction_unwrap(c.audaces_protocol_program_id, accounts,
                   try_to_vec(instruction_data))

increase_position(c, add_collateral, leverage, instance_index, position_index, position_owner, open_positions_account, predicted_entry_price, maximum_slippage_margin, discount_account_opt, referrer_account_opt) ==
    IF ~instances_index(c, instance_index).ok
    THEN IndexPanic(Len(c.instances), instance_index)
    ELSE
    LET instance == instances_index(c, instance_index).val
        instruction_data ==
            [tag |-> "IncreasePosition", instance_index |-> instance_index,
             add_collateral |-> add_collateral,
             position_index |-> position_index,
             leverage |-> leverage,
             predicted_entry_price |-> predicted_entry_price,
             maximum_slippage_margin |-> maximum_slippage_margin]
        accounts ==
            << AccountMeta_new_readonly(spl_token_id, FALSE),
               AccountMeta_new_readonly(clock_id, FALSE),
               AccountMeta_new(c.market_account, FALSE),
               AccountMeta_new_readonly(c.market_signer_account, FALSE),
               AccountMeta_new(c.market_vault, FALSE),
               AccountMeta_new(c.bonfida_bnb, FALSE),
               AccountMeta_new(instance.instance_account, FALSE),
               AccountMeta_new_readonly(position_owner, TRUE),
               AccountMeta_new(open_positions_account, FALSE),
               AccountMeta_new_readonly(TRADE_LABEL, FALSE),
               AccountMeta_new_readonly(c.oracle_account, FALSE) >>
            \o push_pages(instance.memory_pages)
            \o push_discount(discount_account_opt)
            \o push_referrer(referrer_account_opt)
    IN Instruction_unwrap(c.audaces_protocol_program_id, accounts,
                   try_to_vec(instruction_data))

\* close_position with the oracle pushed where open_position pushes it, after
\* the trade label.
close_position_oracle_last(c, position_info, closing_collateral, closing_v_coin, position_index, predicted_entry_price, maximum_slippage_margin, discount_account, referrer_account_opt) ==
    IF ~instances_index(c, position_info.instance_index).ok
    THEN IndexPanic(Len(c.instances), position_info.instance_index)
    ELSE
    LET instance == instances_index(c, position_info.instance_index).val
        instruction_data ==
            [tag |-> "ClosePosition", closing_collateral |-> closing_collateral,
             closing_v_coin |-> closing_v_coin,
             position_index |-> position_index,
             predicted_entry_price |-> predicted_entry_price,
             maximum_slippage_margin |-> maximum_slippage_margin]
        accounts ==
            << AccountMeta_new_readonly(spl_token_id, FALSE),
               AccountMeta_new_readonly(clock_id, FALSE),
               AccountMeta_new(c.market_account, FALSE),
               AccountMeta_new(instance.instance_account, FALSE),
               AccountMeta_new_readonly(c.market_signer_account, FALSE),
               AccountMeta_new(c.market_vault, FALSE),
               AccountMeta_new(c.bonfida_bnb, FALSE),
               AccountMeta_new_readonly(position_info.user_account_owner, TRUE),
               AccountMeta_new(position_info.user_account, FALSE),
               AccountMeta_new_readonly(TRADE_LABEL, FALSE),
               AccountMeta_new_readonly(c.oracle_account, FALSE) >>
            \o push_pages(instance.memory_pages)
            \o push_discount(discount_account)
            \o push_referrer(referrer_account_opt)
    IN Instruction_unwrap(c.audaces_protocol_program_id, accounts,
                   try_to_vec(instruction_data))

close_position(c, position_info, closing_collateral, closing_v_coin, position_index, predicted_entry_price, maximum_slippage_margin, discount_account, referrer_account_opt) ==
    IF ~instances_index(c, position_info.instance_index).ok
    THEN IndexPanic(Len(c.instances), position_info.instance_index)
    ELSE
    LET instance == instances_index(c, position_info.instance_index).val
        instruction_data ==
            [tag |-> "ClosePosition", closing_collateral |-> closing_collateral,
             closing_v_coin |-> closing_v_coin,
             position_index |-> position_index,
             predicted_entry_price |-> predicted_entry_price,
             maximum_slippage_margin |-> maximum_slippage_margin]
        accounts ==
            << AccountMeta_new_readonly(spl_token_id, FALSE),
               AccountMeta_new_readonly(clock_id, FALSE),
               AccountMeta_new(c.market_account, FALSE),
               AccountMeta_new(instance.instance_account, FALSE),
               AccountMeta_new_readonly(c.market_signer_account, FALSE),
               AccountMeta_new(c.market_vault, FALSE),
               AccountMeta_new(c.bonfida_bnb, FALSE),
               AccountMeta_new_readonly(c.oracle_account, FALSE),
               AccountMeta_new_readonly(position_info.user_account_owner, TRUE),
               AccountMeta_new(position_info.user_account, FALSE),
               AccountMeta_new_readonly(TRADE_LABEL, FALSE) >>
            \o push_pages(instance.memory_pages)
            \o push_discount(discount_account)
            \o push_referrer(referrer_account_opt)
    IN Instruction_unwrap(c.audaces_protocol_program_id, accounts,
                   try_to_vec(instruction_data))

\* collect_garbage pushing no more pages than it is asked to iterate
collect_garbage_pages_limited(c, instance_index, max_iterations, target_token_account) ==
    IF ~instances_index(c, instance_index).ok
    THEN IndexPanic(Len(c.instances), instance_index)
    ELSE
    LET instance == instances_index(c, instance_index).val
        instruction_data ==
            [tag |-> "CollectGarbage", instance_index |-> instance_index,
             max_iterations |-> max_iterations]
        n == IF max_iterations < Len(instance.memory_pages)
             THEN max_iterations ELSE Len(instance.memory_pages)
        accounts ==
            << AccountMeta_new_readonly(spl_token_id, FALSE),
               AccountMeta_new(c.market_account, FALSE),
               AccountMeta_new(instance.instance_account, FALSE),
               AccountMeta_new(c.market_vault, FALSE),
               AccountMeta_new_readonly(c.market_signer_account, FALSE),
               AccountMeta_new(target_token_account, FALSE) >>
            \o push_pages(SubSeq(instance.memory_pages, 1, n))
    IN Instruction_unwrap(c.audaces_protocol_program_id, accounts,
                   try_to_vec(instruction_data))

\* collect_garbage with the market signer pushed before the vault, the order
\* the other builders use.
collect_garbage_signer_first(c, instance_index, max_iterations, target_token_account) ==
    IF ~instances_index(c, instance_index).ok
    THEN IndexPanic(Len(c.instances), instance_index)
    ELSE
    LET instance == instances_index(c, instance_index).val
        instruction_data ==
            [tag |-> "CollectGarbage", instance_index |-> instance_index,
             max_iterations |-> max_iterations]
        accounts ==
            << AccountMeta_new_readonly(spl_token_id, FALSE),
               AccountMeta_new(c.market_account, FALSE),
               AccountMeta_new(instance.instance_account, FALSE),
               AccountMeta_new_readonly(c.market_signer_account, FALSE),
               AccountMeta_new(c.market_vault, FALSE),
               AccountMeta_new(target_token_account, FALSE) >>
            \o push_pages(instance.memory_pages)
    IN Instruction_unwrap(c.audaces_protocol_program_id, accounts,
                   try_to_vec(instruction_data))

collect_garbage(c, instance_index, max_iterations, target_token_account) ==
    IF ~instances_index(c, instance_index).ok
    THEN IndexPanic(Len(c.instances), instance_index)
    ELSE
    LET instance == instances_index(c, instance_index).val
        instruction_data ==
            [tag |-> "CollectGarbage", instance_index |-> instance_index,
             max_iterations |-> max_iterations]
        accounts ==
            << AccountMeta_new_readonly(spl_token_id, FALSE),
               AccountMeta_new(c.market_account, FALSE),
               AccountMeta_new(instance.instance_account, FALSE),
               AccountMeta_new(c.market_vault, FALSE),
               AccountMeta_new_readonly(c.market_signer_account, FALSE),
               AccountMeta_new(target_token_account, FALSE) >>
            \o push_pages(instance.memory_pages)
    IN Instruction_unwrap(c.audaces_protocol_program_id, accounts,
                   try_to_vec(instruction_data))

\* crank_liquidation with the vault pushed before the fee sink, the order
\* open_position uses.
crank_liquidation_vault_first(c, instance_index, target_token_account) ==
    IF ~instances_index(c, instance_index).ok
    THEN IndexPanic(Len(c.instances), instance_index)
    ELSE
    LET instance == instances_index(c, instance_index).val
        instruction_data ==
            [tag |-> "CrankLiquidation", instance_index |-> instance_index]
        accounts ==
            << AccountMeta_new_readonly(spl_token_id, FALSE),
               AccountMeta_new(c.market_account, FALSE),
               AccountMeta_new(instance.instance_account, FALSE),
               AccountMeta_new_readonly(c.market_signer_account, FALSE),
               AccountMeta_new(c.market_vault, FALSE),
               AccountMeta_new(c.bonfida_bnb, FALSE),
               AccountMeta_new_readonly(c.oracle_account, FALSE),
               AccountMeta_new(target_token_account, FALSE),
               AccountMeta_new_readonly(LIQUIDATION_LABEL, FALSE) >>
            \o push_pages(instance.memory_pages)
    IN Instruction_unwrap(c.audaces_protocol_program_id, accounts,
                   try_to_vec(instruction_data))

crank_liquidation(c, instance_index, target_token_account) ==
    IF ~instances_index(c, instance_index).ok
    THEN IndexPanic(Len(c.instances), instance_index)
    ELSE
    LET instance == instances_index(c, instance_index).val
        instruction_data ==
            [tag |-> "CrankLiquidation", instance_index |-> instance_index]
        accounts ==
            << AccountMeta_new_readonly(spl_token_id, FALSE),
               AccountMeta_new(c.market_account, FALSE),
               AccountMeta_new(instance.instance_account, FALSE),
               AccountMeta_new_readonly(c.market_signer_account, FALSE),
               AccountMeta_new(c.bonfida_bnb, FALSE),
               AccountMeta_new(c.market_vault, FALSE),
               AccountMeta_new_readonly(c.oracle_account, FALSE),
               AccountMeta_new(target_token_account, FALSE),
               AccountMeta_new_readonly(LIQUIDATION_LABEL, FALSE) >>
            \o push_pages(instance.memory_pages)
    IN Instruction_unwrap(c.audaces_protocol_program_id, accounts,
                   try_to_vec(instruction_data))

crank_funding(c) ==
    LET accounts ==
            << AccountMeta_new_readonly(clock_id, FALSE),
               AccountMeta_new(c.market_account, FALSE),
               AccountMeta_new_readonly(c.oracle_account, FALSE),
               AccountMeta_new_readonly(FUNDING_LABEL, FALSE) >>
    IN Instruction_unwrap(c.audaces_protocol_program_id, accounts,
                   try_to_vec([tag |-> "CrankFunding"]))

extract_funding(c, instance_index, open_positions_account) ==
    IF ~instances_index(c, instance_index).ok
    THEN IndexPanic(Len(c.instances), instance_index)
    ELSE
    LET instance == instances_index(c, instance_index).val
        instruction_data ==
            [tag |-> "FundingExtraction", instance_index |-> instance_index]
        accounts ==
            << AccountMeta_new(c.market_account, FALSE),
               AccountMeta_new(instance.instance_account, FALSE),
               AccountMeta_new(open_positions_account, FALSE),
               AccountMeta_new_readonly(FUNDING_EXTRACTION_LABEL, FALSE),
               AccountMeta_new_readonly(c.oracle_account, FALSE) >>
            \o push_pages(instance.memory_pages)
    IN Instruction_unwrap(c.audaces_protocol_program_id, accounts,
                   try_to_vec(instruction_data))

change_k(c, factor) ==
    LET accounts ==
            << AccountMeta_new(c.market_account, FALSE),
               AccountMeta_new_readonly(c.admin_account, TRUE) >>
    IN Instruction_unwrap(c.audaces_protocol_program_id, accounts,
                   try_to_vec([tag |-> "ChangeK", factor |-> factor]))

close_account(c, user_account, user_account_owner, lamports_target) ==
    LET accounts ==
            << AccountMeta_new(user_account, FALSE),
               AccountMeta_new_readonly(user_account_owner, TRUE),
               AccountMeta_new(lamports_target, FALSE) >>
    IN Instruction_unwrap(c.audaces_protocol_program_id, accounts,
                   try_to_vec([tag |-> "CloseAccount"]))

\* The payload is encoded first; the index is taken while the list is built.
add_page(c, instance_index, new_memory_page) ==
    LET data == try_to_vec([tag |-> "AddPage", instance_index |-> instance_index])
    IN IF ~instances_index(c, instance_index).ok
       THEN IndexPanic(Len(c.instances), instance_index)
       ELSE
       LET accounts ==
               << AccountMeta_new_readonly(c.market_account, FALSE),
                  AccountMeta_new_readonly(c.admin_account, TRUE),
                  AccountMeta_new(instances_index(c, instance_index).val.instance_account,
                                  FALSE),
                  AccountMeta_new_readonly(new_memory_page, FALSE) >>
       IN Instruction_unwrap(c.audaces_protocol_program_id, accounts, data)

\* The pages are those of instances[instance_index]; the instance account
\* listed is instances[0].instance_account.
rebalance(c, user_account, user_account_owner, instance_index, collateral) ==
    IF ~instances_index(c, instance_index).ok
    THEN IndexPanic(Len(c.instances), instance_index)
    ELSE
    LET instance == instances_index(c, instance_index).val
        data == try_to_vec([tag |-> "Rebalance", collateral |-> collateral,
                            instance_index |-> instance_index])
    IN IF ~instances_index(c, 0).ok
       THEN IndexPanic(Len(c.instances), 0)
       ELSE
       LET accounts ==
               << AccountMeta_new_readonly(spl_token_id, FALSE),
                  AccountMeta_new_readonly(clock_id, FALSE),
                  AccountMeta_new(c.market_account, FALSE),
                  AccountMeta_new(instances_index(c, 0).val.instance_account, FALSE),
                  AccountMeta_new_readonly(c.market_signer_account, FALSE),
                  AccountMeta_new(c.market_vault, FALSE),
                  AccountMeta_new(c.bonfida_bnb, FALSE),
                  AccountMeta_new_readonly(user_account_owner, TRUE),
                  AccountMeta_new(user_account, FALSE),
                  AccountMeta_new_readonly(c.admin_account, TRUE) >>
               \o push_pages(instance.memory_pages)
       IN Instruction_unwrap(c.audaces_protocol_program_id, accounts, data)

transfer_user_account(c, user_account, user_account_owner, new_user_account_owner) ==
    LET accounts ==
            << AccountMeta_new_readonly(user_account_owner, TRUE),
               AccountMeta_new(user_account, FALSE),
               AccountMeta_new_readonly(new_user_account_owner, FALSE) >>
    IN Instruction_unwrap(c.audaces_protocol_program_id, accounts,
                   try_to_vec([tag |-> "TransferUserAccount"]))

\* transfer_position with the destination owner listed without its signature
transfer_position_dest_unsigned(c, position_index, source_user_account, source_user_account_owner, destination_user_account, destination_user_account_owner) ==
    LET accounts ==
            << AccountMeta_new_readonly(source_user_account_owner, TRUE),
               AccountMeta_new(source_user_account, FALSE),
               AccountMeta_new_readonly(destination_user_account_owner, FALSE),
               AccountMeta_new(destination_user_account, FALSE) >>
    IN Instruction_unwrap(c.audaces_protocol_program_id, accounts,
                   try_to_vec([tag |-> "TransferPosition",
                               position_index |-> position_index]))

transfer_position(c, position_index, source_user_account, source_user_account_owner, destination_user_account, destination_user_account_owner) ==
    LET accounts ==
            << AccountMeta_new_readonly(source_user_account_owner, TRUE),
               AccountMeta_new(source_user_account, FALSE),
               AccountMeta_new_readonly(destination_user_account_owner, TRUE),
               AccountMeta_new(destination_user_account, FALSE) >>
    IN Instruction_unwrap(c.audaces_protocol_program_id, accounts,
                   try_to_vec([tag |-> "TransferPosition",
                               position_index |-> position_index]))

(***************************************************************************)
(* Inputs.  A context holds up to MaxInstances instances, each with up to  *)
(* MaxPages page accounts (possibly the same page listed twice).  Scalars  *)
(* are drawn from sets that exercise several bytes of each width.          *)
(***************************************************************************)
ProgramId == Key("audaces_protocol_program", 0)

SignerNonces == {0, 254}

PageShapes ==
    {<<n, dup>> \in (0..MaxPages) \X BOOLEAN : dup => n >= 2}

PagesOf(i, shape) ==
    [k \in 1..shape[1] |-> Key("page", 16 * i + (IF shape[2] THEN 1 ELSE k))]

InstanceLists ==
    UNION { { [i \in 1..n |->
                 [instance_account |-> Key("instance", i),
                  memory_pages |-> PagesOf(i, f[i])]] :
              f \in [1..n -> PageShapes] } : n \in 0..MaxInstances }

Contexts ==
    { [audaces_protocol_program_id |-> ProgramId,
       signer_nonce |-> n,
       market_signer_account |-> Key("market_signer", 0),
       oracle_account |-> Key("oracle", 0),
       market_account |-> Key("market", 0),
       admin_account |-> Key("admin", 0),
       market_vault |-> Key("market_vault", 0),
       bonfida_bnb |-> Key("bonfida_bnb", 0),
       instances |-> l] : n \in SignerNonces, l \in InstanceLists }

\* every index in range, the first one out of range, and the largest u8
IndexChoices(c) == (0..Len(c.instances)) \cup {255}

Sides == {"Short", "Long"}

PositionInfos(c) ==
    { [user_account |-> Key("user_account", 1),
       user_account_owner |-> Key("wallet", 1),
       instance_index |-> i, side |-> s] : i \in IndexChoices(c), s \in Sides }

DiscountOpts ==
    { None, Some([owner |-> Key("discount_owner", 0),
                  address |-> Key("discount", 0)]) }

ReferrerOpts == { None, Some(Key("referrer", 0)) }

Amounts == {0, 258}

Leverages == {1, 2147483647}

PricePairs == { <<65536, 3>>, <<4, 16777216>> }

ClosingPairs == { <<0, 258>>, <<2147483647, 1>> }

PositionIndexes == {0, 513}

Iterations == {0, 5, 258, 2147483647}

Symbols == { <<>>, <<66>>, <<66, 84, 67>>, LongString }

Decimals == {0, 6}

\* accounts a caller may hand over twice (one wallet owning both sides)
TransferKeys == { Key("wallet", 1), Key("wallet", 2) }

(***************************************************************************)
(* State: the context a request is built from, the call made on it with    *)
(* its arguments, and what the call returned.  Contexts are built afresh   *)
(* for one request, so each context sees one call.                         *)
(***************************************************************************)
Init ==
    /\ ctx \in Contexts
    /\ call = [fn |-> "none"]
    /\ result = NotCalled
    /\ decoded = NotCalled

Ready == result.kind = "none" /\ call.fn = "none"

Call_create_market ==
    /\ Ready
    /\ \E market_symbol \in Symbols, initial_v_pc_amount \in Amounts,
          coin_decimals \in Decimals :
        /\ call' = [fn |-> "create_market", market_symbol |-> market_symbol,
                    initial_v_pc_amount |-> initial_v_pc_amount,
                    coin_decimals |-> coin_decimals, quote_decimals |-> 9]
        /\ result' = create_market(ctx, market_symbol, initial_v_pc_amount,
                                   coin_decimals, 9)
    /\ UNCHANGED <<ctx, decoded>>

Call_update_oracle_account ==
    /\ Ready
    /\ call' = [fn |-> "update_oracle_account",
                pyth_oracle_mapping_account |-> Key("pyth_mapping", 0),
                pyth_oracle_product_account |-> Key("pyth_product", 0),
                pyth_oracle_price_account |-> Key("pyth_price", 0)]
    /\ result' = update_oracle_account(ctx, Key("pyth_mapping", 0),
                                       Key("pyth_product", 0), Key("pyth_price", 0))
    /\ UNCHANGED <<ctx, decoded>>

Call_add_instance ==
    /\ Ready
    /\ \E shape \in PageShapes :
        LET memory_pages == PagesOf(MaxInstances + 1, shape) IN
        /\ call' = [fn |-> "add_instance",
                    instance_account |-> Key("instance", MaxInstances + 1),
                    memory_pages |-> memory_pages]
        /\ result' = add_instance(ctx, Key("instance", MaxInstances + 1),
                                  memory_pages)
    /\ UNCHANGED <<ctx, decoded>>

Call_add_budget ==
    /\ Ready
    /\ \E amount \in Amounts :
        /\ call' = [fn |-> "add_budget", amount |-> amount,
                    source_owner |-> Key("wallet", 1),
                    source_token_account |-> Key("usdc_account", 1),
                    open_positions_account |-> Key("user_account", 1)]
        /\ result' = add_budget(ctx, amount, Key("wallet", 1),
                                Key("usdc_account", 1), Key("user_account", 1))
    /\ UNCHANGED <<ctx, decoded>>

Call_withdraw_budget ==
    /\ Ready
    /\ \E amount \in Amounts :
        /\ call' = [fn |-> "withdraw_budget", amount |-> amount,
                    target_account |-> Key("usdc_account", 1),
                    open_positions_owner_account |-> Key("wallet", 1),
                    open_positions_account |-> Key("user_account", 1)]
        /\ result' = withdraw_budget(ctx, amount, Key("usdc_account", 1),
                                     Key("wallet", 1), Key("user_account", 1))
    /\ UNCHANGED <<ctx, decoded>>

Call_open_position ==
    /\ Ready
    /\ \E position \in PositionInfos(ctx), collateral \in Amounts,
          leverage \in Leverages, pp \in PricePairs,
          discount_account_opt \in DiscountOpts,
          referrer_account_opt \in ReferrerOpts :
        /\ call' = [fn |-> "open_position", position |-> position,
                    collateral |-> collateral, leverage |-> leverage,
                    predicted_entry_price |-> pp[1],
                    maximum_slippage_margin |-> pp[2],
                    discount |-> discount_account_opt,
                    referrer |-> referrer_account_opt]
        /\ result' = open_position(ctx, position, collateral, leverage, pp[1], pp[2],
                                   discount_account_opt, referrer_account_opt)
    /\ UNCHANGED <<ctx, decoded>>

Call_increase_position ==
    /\ Ready
    /\ \E add_collateral \in Amounts, leverage \in Leverages,
          instance_index \in IndexChoices(ctx),
          position_index \in PositionIndexes, pp \in PricePairs,
          discount_account_opt \in DiscountOpts,
          referrer_account_opt \in ReferrerOpts :
        /\ call' = [fn |-> "increase_position", add_collateral |-> add_collateral,
                    leverage |-> leverage, instance_index |-> instance_index,
                    position_index |-> position_index,
                    position_owner |-> Key("wallet", 1),
                    open_positions_account |-> Key("user_account", 1),
                    predicted_entry_price |-> pp[1],
                    maximum_slippage_margin |-> pp[2],
                    discount |-> discount_account_opt,
                    referrer |-> referrer_account_opt]
        /\ result' = increase_position(ctx, add_collateral, leverage, instance_index,
                                       position_index, Key("wallet", 1),
                                       Key("user_account", 1), pp[1], pp[2],
                                       discount_account_opt, referrer_account_opt)
    /\ UNCHANGED <<ctx, decoded>>

Call_close_position ==
    /\ Ready
    /\ \E position_info \in PositionInfos(ctx), cp \in ClosingPairs,
          position_index \in PositionIndexes, pp \in PricePairs,
          discount_account \in DiscountOpts,
          referrer_account_opt \in ReferrerOpts :
        /\ call' = [fn |-> "close_position", position |-> position_info,
                    closing_collateral |-> cp[1], closing_v_coin |-> cp[2],
                    position_index |-> position_index,
                    predicted_entry_price |-> pp[1],
                    maximum_slippage_margin |-> pp[2],
                    discount |-> discount_account,
                    referrer |-> referrer_account_opt]
        /\ result' = close_position(ctx, position_info, cp[1], cp[2], position_index,
                                    pp[1], pp[2], discount_account,
                                    referrer_account_opt)
    /\ UNCHANGED <<ctx, decoded>>

Call_collect_garbage ==
    /\ Ready
    /\ \E instance_index \in IndexChoices(ctx), max_iterations \in Iterations,
          target_token_account \in {Key("usdc_account", 1), ctx.market_vault} :
        /\ call' = [fn |-> "collect_garbage", instance_index |-> instance_index,
                    max_iterations |-> max_iterations,
                    target_token_account |-> target_token_account]
        /\ result' = collect_garbage(ctx, instance_index, max_iterations,
                                     target_token_account)
    /\ UNCHANGED <<ctx, decoded>>

Call_crank_liquidation ==
    /\ Ready
    /\ \E instance_index \in IndexChoices(ctx),
          target_token_account \in {Key("usdc_account", 1), ctx.market_vault} :
        /\ call' = [fn |-> "crank_liquidation", instance_index |-> instance_index,
                    target_token_account |-> target_token_account]
        /\ result' = crank_liquidation(ctx, instance_index, target_token_account)
    /\ UNCHANGED <<ctx, decoded>>

Call_crank_funding ==
    /\ Ready
    /\ call' = [fn |-> "crank_funding"]
    /\ result' = crank_funding(ctx)
    /\ UNCHANGED <<ctx, decoded>>

Call_extract_funding ==
    /\ Ready
    /\ \E instance_index \in IndexChoices(ctx) :
        /\ call' = [fn |-> "extract_funding", instance_index |-> instance_index,
                    open_positions_account |-> Key("user_account", 1)]
        /\ result' = extract_funding(ctx, instance_index, Key("user_account", 1))
    /\ UNCHANGED <<ctx, decoded>>

Call_change_k ==
    /\ Ready
    /\ \E factor \in Iterations :
        /\ call' = [fn |-> "change_k", factor |-> factor]
        /\ result' = change_k(ctx, factor)
    /\ UNCHANGED <<ctx, decoded>>

Call_close_account ==
    /\ Ready
    /\ call' = [fn |-> "close_account", user_account |-> Key("user_account", 1),
                user_account_owner |-> Key("wallet", 1),
                lamports_target |-> Key("wallet", 2)]
    /\ result' = close_account(ctx, Key("user_account", 1), Key("wallet", 1),
                               Key("wallet", 2))
    /\ UNCHANGED <<ctx, decoded>>

Call_add_page ==
    /\ Ready
    /\ \E instance_index \in IndexChoices(ctx) :
        /\ call' = [fn |-> "add_page", instance_index |-> instance_index,
                    new_memory_page |-> Key("new_page", 0)]
        /\ result' = add_page(ctx, instance_index, Key("new_page", 0))
    /\ UNCHANGED <<ctx, decoded>>

Call_rebalance ==
    /\ Ready
    /\ \E instance_index \in IndexChoices(ctx), collateral \in Amounts :
        /\ call' = [fn |-> "rebalance", user_account |-> Key("user_account", 1),
                    user_account_owner |-> Key("wallet", 1),
                    instance_index |-> instance_index, collateral |-> collateral]
        /\ result' = rebalance(ctx, Key("user_account", 1), Key("wallet", 1),
                               instance_index, collateral)
    /\ UNCHANGED <<ctx, decoded>>

Call_transfer_user_account ==
    /\ Ready
    /\ \E new_user_account_owner \in TransferKeys :
        /\ call' = [fn |-> "transfer_user_account",
                    user_account |-> Key("user_account", 1),
                    user_account_owner |-> Key("wallet", 1),
                    new_user_account_owner |-> new_user_account_owner]
        /\ result' = transfer_user_account(ctx, Key("user_account", 1),
                                           Key("wallet", 1), new_user_account_owner)
    /\ UNCHANGED <<ctx, decoded>>

Call_transfer_position ==
    /\ Ready
    /\ \E position_index \in PositionIndexes,
          source_user_account \in TransferKeys \cup {Key("user_account", 1)},
          source_user_account_owner \in TransferKeys,
          destination_user_account \in TransferKeys \cup {Key("user_account", 2)},
          destination_user_account_owner \in TransferKeys :
        /\ call' = [fn |-> "transfer_position", position_index |-> position_index,
                    source_user_account |-> source_user_account,
                    source_user_account_owner |-> source_user_account_owner,
                    destination_user_account |-> destination_user_account,
                    destination_user_account_owner |->
                        destination_user_account_owner]
        /\ result' = transfer_position(ctx, position_index, source_user_account,
                                       source_user_account_owner,
                                       destination_user_account,
                                       destination_user_account_owner)
    /\ UNCHANGED <<ctx, decoded>>

Next ==
    \/ Call_create_market
    \/ Call_update_oracle_account
    \/ Call_add_instance
    \/ Call_add_budget
    \/ Call_withdraw_budget
    \/ Call_open_position
    \/ Call_increase_position
    \/ Call_close_position
    \/ Call_collect_garbage
    \/ Call_crank_liquidation
    \/ Call_crank_funding
    \/ Call_extract_funding
    \/ Call_change_k
    \/ Call_close_account
    \/ Call_add_page
    \/ Call_rebalance
    \/ Call_transfer_user_account
    \/ Call_transfer_position

Spec == Init /\ [][Next]_vars

(***************************************************************************)
(* The wire format on its own: a PerpInstruction value is serialized, and  *)
(* the bytes, any prefix of them, the bytes with one more byte after them, *)
(* or the bytes with one byte of the symbol replaced, are handed to the    *)
(* derived deserializer.                                                   *)
(***************************************************************************)
U8Vals == {0, 1, 255}

U16Vals == {0, 513, 65535}

U64Few == {0, 258, 2147483647}

U64Wide == {0, 1, 255, 256, 65535, 65536, 16777215, 16777216, 2147483647}

\* Strings, as their UTF-8 bytes: "", "B", "BTC", four NULs and SOH, and two
\* that are not ASCII, U+00E9 and U+20AC
CodecSymbols ==
    { <<>>, <<66>>, <<66, 84, 67>>, <<0, 0, 0, 0, 1>>, <<195, 169>>,
      <<226, 130, 172>> }

\* the bytes put in the place of a byte of the symbol
AlteredBytes == {40, 169, 226, 255}

PerpValues ==
    { [tag |-> t] : t \in {"AddInstance", "UpdateOracleAccount", "CrankFunding",
                            "CloseAccount", "TransferUserAccount"} }
    \cup { [tag |-> "CreateMarket", signer_nonce |-> n, market_symbol |-> s,
            initial_v_pc_amount |-> a, coin_decimals |-> cd, quote_decimals |-> qd] :
           n \in U8Vals, s \in CodecSymbols, a \in U64Few, cd \in U8Vals,
           qd \in U8Vals }
    \cup { [tag |-> "OpenPosition", side |-> sd, collateral |-> c,
            instance_index |-> i, leverage |-> l, predicted_entry_price |-> p,
            maximum_slippage_margin |-> m] :
           sd \in Sides, c \in U64Few, i \in U8Vals, l \in U64Few, p \in U64Few,
           m \in U64Few }
    \cup { [tag |-> t, amount |-> a] :
           t \in {"AddBudget", "WithdrawBudget"}, a \in U64Wide }
    \cup { [tag |-> "IncreasePosition", add_collateral |-> c, instance_index |-> i,
            leverage |-> l, position_index |-> x, predicted_entry_price |-> p,
            maximum_slippage_margin |-> m] :
           c \in U64Few, i \in U8Vals, l \in U64Few, x \in U16Vals, p \in U64Few,
           m \in U64Few }
    \cup { [tag |-> "ClosePosition", position_index |-> x, closing_collateral |-> c,
            closing_v_coin |-> v, predicted_entry_price |-> p,
            maximum_slippage_margin |-> m] :
           x \in U16Vals, c \in U64Few, v \in U64Few, p \in U64Few, m \in U64Few }
    \cup { [tag |-> "CollectGarbage", instance_index |-> i, max_iterations |-> m] :
           i \in U8Vals, m \in U64Wide }
    \cup { [tag |-> t, instance_index |-> i] :
           t \in {"CrankLiquidation", "FundingExtraction", "AddPage"},
           i \in U8Vals }
    \cup { [tag |-> "ChangeK", factor |-> f] : f \in U64Wide }
    \cup { [tag |-> "Rebalance", collateral |-> c, instance_index |-> i] :
           c \in U64Wide, i \in U8Vals }
    \cup { [tag |-> "TransferPosition", position_index |-> x] : x \in U16Vals }

CodecContext == CHOOSE c \in Contexts : c.signer_nonce = 0 /\ Len(c.instances) = 0

InitCodec ==
    /\ ctx = CodecContext
    /\ call \in { [fn |-> "try_to_vec", value |-> v] : v \in PerpValues }
    /\ result = NotCalled
    /\ decoded = NotCalled

Serialize ==
    /\ call.fn = "try_to_vec"
    /\ result.kind = "none"
    /\ result' = LET r == try_to_vec(call.value) IN
                  IF r.ok THEN [kind |-> "bytes", data |-> r.val]
                  ELSE [kind |-> "error", err |-> r.err]
    /\ UNCHANGED <<ctx, call, decoded>>

Deserialize ==
    /\ result.kind = "bytes"
    /\ decoded.kind = "none"
    /\ \E n \in 0..Len(result.data) :
        LET input == SubSeq(result.data, 1, n) IN
        decoded' = [kind |-> "decoded", input |-> input,
                    outcome |-> try_from_slice(input)]
    /\ UNCHANGED <<ctx, call, result>>

DeserializeTrailing ==
    /\ result.kind = "bytes"
    /\ decoded.kind = "none"
    /\ \E extra \in {0, 255} :
        LET input == result.data \o <<extra>> IN
        decoded' = [kind |-> "decoded", input |-> input,
                    outcome |-> try_from_slice(input)]
    /\ UNCHANGED <<ctx, call, result>>

\* the symbol of a CreateMarket starts after the variant index, the
\* signer_nonce and the four bytes of its length
DeserializeAlteredSymbol ==
    /\ result.kind = "bytes"
    /\ decoded.kind = "none"
    /\ call.value.tag = "CreateMarket"
    /\ \E p \in 1..Len(call.value.market_symbol), x \in AlteredBytes :
        LET input == [result.data EXCEPT ![6 + p] = x] IN
        decoded' = [kind |-> "decoded", input |-> input,
                    outcome |-> try_from_slice(input)]
    /\ UNCHANGED <<ctx, call, result>>

NextCodec ==
    \/ Serialize
    \/ Deserialize
    \/ DeserializeTrailing
    \/ DeserializeAlteredSymbol

SpecCodec == InitCodec /\ [][NextCodec]_vars

(***************************************************************************)
(* Properties.  The expected lists and payloads are written out here and   *)
(* compared with what the builders returned.                               *)
(***************************************************************************)
\* an account reference with the given identity and flags
Ref(k, writable, signer) ==
    [pubkey |-> k, is_signer |-> signer, is_writable |-> writable]

Built == result.kind = "Instruction"

IndexedFns ==
    {"open_position", "increase_position", "close_position", "collect_garbage",
     "crank_liquidation", "extract_funding", "add_page", "rebalance"}

\* the instance index the call was given
CallIndex ==
    IF call.fn \in {"open_position", "close_position"}
    THEN call.position.instance_index
    ELSE call.instance_index

IndexInRange == call.fn \in IndexedFns /\ CallIndex < Len(ctx.instances)

Selected == ctx.instances[CallIndex + 1]

PageRefs(pages) == [k \in 1..Len(pages) |-> Ref(pages[k], TRUE, FALSE)]

OptionalRefs ==
    (IF call.discount.some
     THEN << Ref(call.discount.val.address, FALSE, FALSE),
             Ref(call.discount.val.owner, FALSE, TRUE) >>
     ELSE << >>)
    \o (IF call.referrer.some THEN << Ref(call.referrer.val, TRUE, FALSE) >>
        ELSE << >>)

\* x shifted right by k bytes
RECURSIVE ShiftBytes(_, _)
ShiftBytes(x, k) == IF k = 0 THEN x ELSE ShiftBytes(x \div 256, k - 1)

\* the n-byte little-endian form of x
LittleEndian(x, n) == [k \in 1..n |-> ShiftBytes(x, k - 1) % 256]

\* C1: for an index in range, the list open_position builds starts with the
\* eleven references token program (ro), clock (ro), market (rw), selected
\* instance (rw), market signer (ro), vault (rw), fee sink (rw), position
\* owner (ro, signer), position account (rw), trade label (ro), oracle (ro),
\* the owner being the only signer among them; the selected instance's pages
\* and then the optional references follow.
C1_OpenPositionPrefix ==
    (call.fn = "open_position" /\ IndexInRange) =>
        /\ Built
        /\ Len(result.accounts) >= 11
        /\ SubSeq(result.accounts, 1, 11) =
            << Ref(spl_token_id, FALSE, FALSE),
               Ref(clock_id, FALSE, FALSE),
               Ref(ctx.market_account, TRUE, FALSE),
               Ref(Selected.instance_account, TRUE, FALSE),
               Ref(ctx.market_signer_account, FALSE, FALSE),
               Ref(ctx.market_vault, TRUE, FALSE),
               Ref(ctx.bonfida_bnb, TRUE, FALSE),
               Ref(call.position.user_account_owner, FALSE, TRUE),
               Ref(call.position.user_account, TRUE, FALSE),
               Ref(TRADE_LABEL, FALSE, FALSE),
               Ref(ctx.oracle_account, FALSE, FALSE) >>
        /\ \A k \in 1..11 : result.accounts[k].is_signer <=> k = 8
        /\ SubSeq(result.accounts, 12, Len(result.accounts)) =
            PageRefs(Selected.memory_pages) \o OptionalRefs

C1_Witness ==
    /\ call.fn = "open_position"
    /\ Built
    /\ call.position.instance_index = 1
    /\ Len(Selected.memory_pages) = 2
    /\ call.discount.some
    /\ call.referrer.some

\* C2: for an index in range, the list close_position builds starts with the
\* eleven references token program (ro), clock (ro), market (rw), selected
\* instance (rw), market signer (ro), vault (rw), fee sink (rw), oracle (ro),
\* position owner (ro, signer), position account (rw), trade label (ro); the
\* selected instance's pages and then the optional references follow.
C2_ClosePositionPrefix ==
    (call.fn = "close_position" /\ IndexInRange) =>
        /\ Built
        /\ Len(result.accounts) >= 11
        /\ SubSeq(result.accounts, 1, 11) =
            << Ref(spl_token_id, FALSE, FALSE),
               Ref(clock_id, FALSE, FALSE),
               Ref(ctx.market_account, TRUE, FALSE),
               Ref(Selected.instance_account, TRUE, FALSE),
               Ref(ctx.market_signer_account, FALSE, FALSE),
               Ref(ctx.market_vault, TRUE, FALSE),
               Ref(ctx.bonfida_bnb, TRUE, FALSE),
               Ref(ctx.oracle_account, FALSE, FALSE),
               Ref(call.position.user_account_owner, FALSE, TRUE),
               Ref(call.position.user_account, TRUE, FALSE),
               Ref(TRADE_LABEL, FALSE, FALSE) >>
        /\ SubSeq(result.accounts, 12, Len(result.accounts)) =
            PageRefs(Selected.memory_pages) \o OptionalRefs

C2_Witness ==
    /\ call.fn = "close_position"
    /\ Built
    /\ call.position.instance_index = 1
    /\ Len(Selected.memory_pages) = 1
    /\ call.discount.some
    /\ ~call.referrer.some

\* C3: for an index in range, the list crank_liquidation builds is exactly
\* token program (ro), market (rw), selected instance (rw), market signer
\* (ro), fee sink (rw), vault (rw), oracle (ro), reward target (rw),
\* liquidation label (ro), then the selected instance's pages; nothing else,
\* and no signer.
C3_CrankLiquidationList ==
    (call.fn = "crank_liquidation" /\ IndexInRange) =>
        /\ Built
        /\ result.accounts =
            << Ref(spl_token_id, FALSE, FALSE),
               Ref(ctx.market_account, TRUE, FALSE),
               Ref(Selected.instance_account, TRUE, FALSE),
               Ref(ctx.market_signer_account, FALSE, FALSE),
               Ref(ctx.bonfida_bnb, TRUE, FALSE),
               Ref(ctx.market_vault, TRUE, FALSE),
               Ref(ctx.oracle_account, FALSE, FALSE),
               Ref(call.target_token_account, TRUE, FALSE),
               Ref(LIQUIDATION_LABEL, FALSE, FALSE) >>
            \o PageRefs(Selected.memory_pages)
        /\ \A k \in 1..Len(result.accounts) : ~result.accounts[k].is_signer

C3_Witness ==
    /\ call.fn = "crank_liquidation"
    /\ Built
    /\ call.instance_index = 1
    /\ Len(Selected.memory_pages) = 2
    /\ Len(result.accounts) = 11

\* C4: for an index i in range whose instance has N pages, collect_garbage
\* builds a list of exactly 6 + N references starting with token program
\* (ro), market (rw), instance i (rw), vault (rw), market signer (ro), target
\* (rw), and a payload of exactly 10 bytes: the discriminant 8, i in one
\* byte, max_iterations in 8 little-endian bytes.  With one instance of two
\* pages, i = 0 and max_iterations = 5 the list has 8 entries and the payload
\* is 8, 0, 5, 0, 0, 0, 0, 0, 0, 0.
C4_CollectGarbage ==
    (call.fn = "collect_garbage" /\ IndexInRange) =>
        /\ Built
        /\ Len(result.accounts) = 6 + Len(Selected.memory_pages)
        /\ SubSeq(result.accounts, 1, 6) =
            << Ref(spl_token_id, FALSE, FALSE),
               Ref(ctx.market_account, TRUE, FALSE),
               Ref(Selected.instance_account, TRUE, FALSE),
               Ref(ctx.market_vault, TRUE, FALSE),
               Ref(ctx.market_signer_account, FALSE, FALSE),
               Ref(call.target_token_account, TRUE, FALSE) >>
        /\ Len(result.data) = 10
        /\ result.data = <<8, call.instance_index>>
                            \o LittleEndian(call.max_iterations, 8)
        /\ (/\ Len(ctx.instances) = 1
            /\ Len(ctx.instances[1].memory_pages) = 2
            /\ call.instance_index = 0
            /\ call.max_iterations = 5)
           => /\ Len(result.accounts) = 8
              /\ result.data = <<8, 0, 5, 0, 0, 0, 0, 0, 0, 0>>

C4_Witness ==
    /\ call.fn = "collect_garbage"
    /\ Built
    /\ Len(ctx.instances) = 1
    /\ Len(ctx.instances[1].memory_pages) = 2
    /\ call.instance_index = 0
    /\ call.max_iterations = 5
    /\ Len(result.accounts) = 8

OptionalFns == {"open_position", "increase_position", "close_position"}

\* the request the same call builds when neither a discount account nor a
\* referrer is supplied
WithoutOptionals ==
    CASE call.fn = "open_position" ->
            open_position(ctx, call.position, call.collateral, call.leverage,
                          call.predicted_entry_price, call.maximum_slippage_margin,
                          None, None)
      [] call.fn = "increase_position" ->
            increase_position(ctx, call.add_collateral, call.leverage,
                              call.instance_index, call.position_index,
                              call.position_owner, call.open_positions_account,
                              call.predicted_entry_price,
                              call.maximum_slippage_margin, None, None)
      [] call.fn = "close_position" ->
            close_position(ctx, call.position, call.closing_collateral,
                           call.closing_v_coin, call.position_index,
                           call.predicted_entry_price,
                           call.maximum_slippage_margin, None, None)

OptionalCount ==
    (IF call.discount.some THEN 2 ELSE 0) + (IF call.referrer.some THEN 1 ELSE 0)

\* C5: for open_position, increase_position and close_position, relative to
\* the list built without discount and referrer (which ends with the last
\* page), a discount alone appends 2 references, a referrer alone 1, both 3,
\* neither 0; the discount pair is the discount address (ro, non-signer)
\* then the discount owner (ro, signer), and the referrer (rw, non-signer)
\* comes after the pair and is the last entry.
C5_OptionalSegments ==
    (call.fn \in OptionalFns /\ IndexInRange) =>
        LET base == WithoutOptionals.accounts
            n == Len(result.accounts)
        IN /\ Built
           /\ Len(base) = 11 + Len(Selected.memory_pages)
           /\ n = Len(base) + OptionalCount
           /\ SubSeq(result.accounts, 1, Len(base)) = base
           /\ call.discount.some =>
                /\ result.accounts[Len(base) + 1] =
                        Ref(call.discount.val.address, FALSE, FALSE)
                /\ result.accounts[Len(base) + 2] =
                        Ref(call.discount.val.owner, FALSE, TRUE)
           /\ call.referrer.some =>
                result.accounts[n] = Ref(call.referrer.val, TRUE, FALSE)
           /\ (call.discount.some /\ call.referrer.some) => n = Len(base) + 3

C5_Witness ==
    /\ call.fn = "increase_position"
    /\ Built
    /\ call.discount.some
    /\ call.referrer.some
    /\ Len(Selected.memory_pages) = 2
    /\ Len(result.accounts) = 16

PagedFns ==
    {"add_instance", "open_position", "increase_position", "close_position",
     "collect_garbage", "crank_liquidation", "extract_funding", "rebalance"}

\* the number of references each builder pushes before the pages
PrefixLen ==
    CASE call.fn = "add_instance" -> 3
      [] call.fn \in OptionalFns -> 11
      [] call.fn = "collect_garbage" -> 6
      [] call.fn = "crank_liquidation" -> 9
      [] call.fn = "extract_funding" -> 5
      [] call.fn = "rebalance" -> 10

\* the pages the call is about: the ones handed to add_instance, otherwise
\* those of the selected instance
CallPages ==
    IF call.fn = "add_instance" THEN call.memory_pages ELSE Selected.memory_pages

\* C6: for every builder with a paged segment and every instance with N
\* pages (N = 0 included), exactly N references follow the fixed prefix, the
\* k-th being the k-th entry of memory_pages (order and duplicates kept),
\* each writable and non-signer; nothing but the optional references comes
\* after them.
C6_PagedSegment ==
    (call.fn \in PagedFns /\ (call.fn = "add_instance" \/ IndexInRange)) =>
        LET N == Len(CallPages) IN
        /\ Built
        /\ Len(result.accounts) =
             PrefixLen + N + (IF call.fn \in OptionalFns THEN OptionalCount ELSE 0)
        /\ \A k \in 1..N :
             result.accounts[PrefixLen + k] = Ref(CallPages[k], TRUE, FALSE)

C6_Witness ==
    /\ call.fn = "extract_funding"
    /\ Built
    /\ Len(CallPages) = 2
    /\ CallPages[1] = CallPages[2]
    /\ result.accounts[6].pubkey = result.accounts[7].pubkey

OutOfRange == call.fn \in IndexedFns /\ CallIndex >= Len(ctx.instances)

\* C7 as stated: an index >= instances.len() yields the error value
\* InvalidInstanceIndex and no request.
C7_InvalidInstanceIndex ==
    OutOfRange =>
        /\ result.kind = "error"
        /\ result.error = "InvalidInstanceIndex"

\* C7, amended: an index >= instances.len() makes every builder that takes
\* an index stop with the index-out-of-bounds panic of the slice access (for
\* the length of the list and the index given); no request is produced
\* (no program id, no account list, no payload), and the index is not
\* replaced by one in range.
C7_IndexFault ==
    OutOfRange =>
        /\ result = [kind |-> "panic", msg |-> "index out of bounds",
                     len |-> Len(ctx.instances), index |-> CallIndex]
        /\ ~Built
        /\ {"program_id", "accounts", "data"} \cap DOMAIN result = {}

C7_Witness ==
    /\ call.fn = "open_position"
    /\ Len(ctx.instances) = 2
    /\ call.position.instance_index = 2
    /\ result.kind = "panic"

\* the byte the side flag is written as
SideByte(side) == PositionType_index(side) - 1

\* the payload each call must carry: the discriminant of its kind, then the
\* arguments of the kind in schema order
ExpectedPayload ==
    CASE call.fn = "create_market" ->
            <<0, ctx.signer_nonce>>
            \o LittleEndian(Len(call.market_symbol), 4) \o call.market_symbol
            \o LittleEndian(call.initial_v_pc_amount, 8)
            \o <<call.coin_decimals, call.quote_decimals>>
      [] call.fn = "add_instance" -> <<1>>
      [] call.fn = "update_oracle_account" -> <<2>>
      [] call.fn = "open_position" ->
            <<3, SideByte(call.position.side)>>
            \o LittleEndian(call.collateral, 8)
            \o <<call.position.instance_index>>
            \o LittleEndian(call.leverage, 8)
            \o LittleEndian(call.predicted_entry_price, 8)
            \o LittleEndian(call.maximum_slippage_margin, 8)
      [] call.fn = "add_budget" -> <<4>> \o LittleEndian(call.amount, 8)
      [] call.fn = "withdraw_budget" -> <<5>> \o LittleEndian(call.amount, 8)
      [] call.fn = "increase_position" ->
            <<6>> \o LittleEndian(call.add_collateral, 8)
            \o <<call.instance_index>>
            \o LittleEndian(call.leverage, 8)
            \o LittleEndian(call.position_index, 2)
            \o LittleEndian(call.predicted_entry_price, 8)
            \o LittleEndian(call.maximum_slippage_margin, 8)
      [] call.fn = "close_position" ->
            <<7>> \o LittleEndian(call.position_index, 2)
            \o LittleEndian(call.closing_collateral, 8)
            \o LittleEndian(call.closing_v_coin, 8)
            \o LittleEndian(call.predicted_entry_price, 8)
            \o LittleEndian(call.maximum_slippage_margin, 8)
      [] call.fn = "collect_garbage" ->
            <<8, call.instance_index>> \o LittleEndian(call.max_iterations, 8)
      [] call.fn = "crank_liquidation" -> <<9, call.instance_index>>
      [] call.fn = "crank_funding" -> <<10>>
      [] call.fn = "extract_funding" -> <<11, call.instance_index>>
      [] call.fn = "change_k" -> <<12>> \o LittleEndian(call.factor, 8)
      [] call.fn = "close_account" -> <<13>>
      [] call.fn = "add_page" -> <<14, call.instance_index>>
      [] call.fn = "rebalance" ->
            <<15>> \o LittleEndian(call.collateral, 8) \o <<call.instance_index>>
      [] call.fn = "transfer_user_account" -> <<16>>
      [] call.fn = "transfer_position" ->
            <<17>> \o LittleEndian(call.position_index, 2)

\* C8: the payload of every request is one discriminant byte, the
\* declaration-order index of the kind (create-market 0 ... transfer-position
\* 17), followed by the kind's arguments in schema order with the values the
\* caller passed: u8 in 1 byte, u16 in 2 and u64 in 8 little-endian bytes,
\* the side in 1 byte, the symbol as a 4-byte little-endian length and its
\* bytes; kinds without arguments have a 1-byte payload.
C8_Payload ==
    Built =>
        /\ result.data = ExpectedPayload
        /\ \A k \in 1..Len(result.data) : result.data[k] \in 0..255

C8_Witness ==
    /\ call.fn = "increase_position"
    /\ Built
    /\ call.add_collateral = 258
    /\ call.instance_index = 1
    /\ call.leverage = 2147483647
    /\ call.position_index = 513
    /\ result.data = << 6, 2, 1, 0, 0, 0, 0, 0, 0, 1,
                        255, 255, 255, 127, 0, 0, 0, 0, 1, 2,
                        0, 0, 1, 0, 0, 0, 0, 0, 3, 0, 0, 0, 0, 0, 0, 0 >>

\* C9: decoding the encoding of a value returns that value and consumes all
\* the bytes; the bytes determine the value among all modelled values;
\* neither a proper prefix of an encoding nor an encoding followed by another
\* byte decodes to anything; and an encoding with a byte of its symbol
\* replaced decodes, if at all, to another value, the one it encodes.
C9_RoundTrip ==
    /\ decoded.kind = "decoded" =>
        IF decoded.input = result.data
        THEN /\ decoded.outcome.ok
             /\ decoded.outcome.val = call.value
             /\ decoded.outcome.rest = << >>
        ELSE IF Len(decoded.input) # Len(result.data)
        THEN ~decoded.outcome.ok
        ELSE decoded.outcome.ok =>
                /\ decoded.outcome.val # call.value
                /\ decoded.outcome.rest = << >>
                /\ try_to_vec(decoded.outcome.val) = EncodeOk(decoded.input)
    /\ (result.kind = "bytes" /\ decoded.kind = "none") =>
        \A w \in PerpValues :
            try_to_vec(w) = EncodeOk(result.data) => w = call.value

C9_Witness ==
    /\ decoded.kind = "decoded"
    /\ call.value.tag = "CreateMarket"
    /\ call.value.market_symbol = << >>
    /\ call.value.initial_v_pc_amount = 2147483647
    /\ decoded.input = result.data
    /\ decoded.outcome.ok
    /\ decoded.outcome.val.market_symbol = << >>

\* no identity sits at two positions of the list with different flags
NoConflictingFlags ==
    \A i, j \in 1..Len(result.accounts) :
        result.accounts[i].pubkey = result.accounts[j].pubkey =>
            /\ result.accounts[i].is_writable = result.accounts[j].is_writable
            /\ result.accounts[i].is_signer = result.accounts[j].is_signer

\* the identities the caller hands to the call, one per parameter
CallerKeys ==
    LET opt == IF call.fn \in OptionalFns
               THEN (IF call.discount.some
                     THEN <<call.discount.val.address, call.discount.val.owner>>
                     ELSE << >>)
                    \o (IF call.referrer.some THEN <<call.referrer.val>> ELSE << >>)
               ELSE << >>
    IN CASE call.fn = "update_oracle_account" ->
              <<call.pyth_oracle_mapping_account, call.pyth_oracle_product_account,
                call.pyth_oracle_price_account>>
         [] call.fn = "add_instance" -> <<call.instance_account>>
         [] call.fn = "add_budget" ->
              <<call.source_owner, call.source_token_account,
                call.open_positions_account>>
         [] call.fn = "withdraw_budget" ->
              <<call.target_account, call.open_positions_owner_account,
                call.open_positions_account>>
         [] call.fn \in {"open_position", "close_position"} ->
              <<call.position.user_account_owner, call.position.user_account>>
              \o opt
         [] call.fn = "increase_position" ->
              <<call.position_owner, call.open_positions_account>> \o opt
         [] call.fn \in {"collect_garbage", "crank_liquidation"} ->
              <<call.target_token_account>>
         [] call.fn = "extract_funding" -> <<call.open_positions_account>>
         [] call.fn = "close_account" ->
              <<call.user_account, call.user_account_owner, call.lamports_target>>
         [] call.fn = "add_page" -> <<call.new_memory_page>>
         [] call.fn = "rebalance" -> <<call.user_account, call.user_account_owner>>
         [] call.fn = "transfer_user_account" ->
              <<call.user_account, call.user_account_owner,
                call.new_user_account_owner>>
         [] call.fn = "transfer_position" ->
              <<call.source_user_account, call.source_user_account_owner,
                call.destination_user_account,
                call.destination_user_account_owner>>
         [] OTHER -> << >>

\* the identities the context and the program's constants supply
ContextKeys ==
    << ctx.market_signer_account, ctx.oracle_account, ctx.market_account,
       ctx.admin_account, ctx.market_vault, ctx.bonfida_bnb,
       spl_token_id, clock_id, TRADE_LABEL, LIQUIDATION_LABEL, FUNDING_LABEL,
       FUNDING_EXTRACTION_LABEL >>
    \o [i \in 1..Len(ctx.instances) |-> ctx.instances[i].instance_account]

PageKeySet ==
    UNION { {ctx.instances[i].memory_pages[k] :
                k \in 1..Len(ctx.instances[i].memory_pages)} :
            i \in 1..Len(ctx.instances) }
    \cup (IF call.fn = "add_instance"
          THEN {call.memory_pages[k] : k \in 1..Len(call.memory_pages)}
          ELSE {})

\* every role is given an identity of its own: the caller's, the context's
\* and the constant identities are pairwise distinct, and no page is one of
\* them (a page may be listed twice)
RolesDistinct ==
    LET keys == CallerKeys \o ContextKeys IN
    /\ \A i, j \in 1..Len(keys) : i # j => keys[i] # keys[j]
    /\ \A i \in 1..Len(keys) : keys[i] \notin PageKeySet

\* C10 as stated: in every request, for all inputs, an identity that occurs
\* twice occurs with the same writable and signer flags.
C10_NoConflictForAllInputs == Built => NoConflictingFlags

\* C10, amended: in every request built from inputs that give every role an
\* identity of its own (pages may repeat among themselves), an identity that
\* occurs twice occurs with the same writable and signer flags.
C10_NoConflictForDistinctRoles == (Built /\ RolesDistinct) => NoConflictingFlags

C10_Witness ==
    /\ Built
    /\ RolesDistinct
    /\ call.fn = "open_position"
    /\ call.discount.some
    /\ \E i, j \in 1..Len(result.accounts) :
          i # j /\ result.accounts[i].pubkey = result.accounts[j].pubkey

\* C11: for every context and all arguments, transfer_position builds exactly
\* four references: source owner (ro, signer), source account (rw,
\* non-signer), destination owner (ro, signer), destination account (rw,
\* non-signer); no page and no optional reference, whatever instances the
\* context holds.
C11_TransferPositionList ==
    call.fn = "transfer_position" =>
        /\ Built
        /\ Len(result.accounts) = 4
        /\ result.accounts =
            << Ref(call.source_user_account_owner, FALSE, TRUE),
               Ref(call.source_user_account, TRUE, FALSE),
               Ref(call.destination_user_account_owner, FALSE, TRUE),
               Ref(call.destination_user_account, TRUE, FALSE) >>

C11_Witness ==
    /\ call.fn = "transfer_position"
    /\ Built
    /\ Len(ctx.instances) = 2
    /\ Len(ctx.instances[2].memory_pages) = 2
    /\ call.source_user_account_owner # call.destination_user_account_owner
    /\ Len(result.accounts) = 4

\* C12: every request create_market returns lists the five accounts the
\* CreateMarket instruction documents: market (writable), clock (read-only),
\* oracle (read-only), admin (read-only), market vault (writable); none is a
\* signer.
C12_CreateMarketList ==
    (call.fn = "create_market" /\ Built) =>
        /\ result.accounts =
            << Ref(ctx.market_account, TRUE, FALSE),
               Ref(clock_id, FALSE, FALSE),
               Ref(ctx.oracle_account, FALSE, FALSE),
               Ref(ctx.admin_account, FALSE, FALSE),
               Ref(ctx.market_vault, TRUE, FALSE) >>

\* C13: for an index in range, add_page lists the four accounts the AddPage
\* instruction documents: market (read-only, non-signer), market admin
\* (signer), the instance at the index (writable), the new page (writable).
C13_AddPageList ==
    (call.fn = "add_page" /\ IndexInRange) =>
        /\ Built
        /\ Len(result.accounts) = 4
        /\ result.accounts[1] = Ref(ctx.market_account, FALSE, FALSE)
        /\ result.accounts[2].pubkey = ctx.admin_account
        /\ result.accounts[2].is_signer
        /\ result.accounts[3].pubkey = Selected.instance_account
        /\ result.accounts[3].is_writable
        /\ result.accounts[4].pubkey = call.new_memory_page
        /\ result.accounts[4].is_writable

InstanceFns ==
    {"open_position", "increase_position", "close_position", "collect_garbage",
     "crank_liquidation", "extract_funding", "rebalance"}

\* where each builder lists the instance account
InstancePosition ==
    CASE call.fn \in {"open_position", "close_position", "rebalance"} -> 4
      [] call.fn = "increase_position" -> 7
      [] call.fn \in {"collect_garbage", "crank_liquidation"} -> 3
      [] call.fn = "extract_funding" -> 2

\* where the payload carries instance_index (0 when it carries none)
IndexOffset ==
    CASE call.fn = "open_position" -> 11
      [] call.fn \in {"increase_position", "rebalance"} -> 10
      [] call.fn \in {"collect_garbage", "crank_liquidation", "extract_funding"} -> 2
      [] OTHER -> 0

\* C14: in every request of a builder that selects an instance by index, the
\* instance account listed, the pages listed and the index in the payload
\* (where there is one) all belong to the instance at that index; in
\* particular for rebalance with an index above 0.
C14_OneInstance ==
    (call.fn \in InstanceFns /\ IndexInRange) =>
        /\ Built
        /\ result.accounts[InstancePosition].pubkey = Selected.instance_account
        /\ \A k \in 1..Len(Selected.memory_pages) :
             result.accounts[PrefixLen + k].pubkey = Selected.memory_pages[k]
        /\ IndexOffset > 0 => result.data[IndexOffset] = CallIndex

\* C15 as stated: a call fails exactly when it takes an instance index and
\* the index is >= instances.len(): the ten builders without an index return
\* a request for every context, the empty instance list included, and the
\* eight with one return a request for every index in range.
C15_FailsIffOutOfRange ==
    call.fn \notin {"none", "try_to_vec"} =>
        /\ result.kind \in {"Instruction", "panic"}
        /\ result.kind = "panic" <=> OutOfRange
        /\ call.fn \notin IndexedFns => Built
        /\ IndexInRange => Built

\* create_market was given a symbol whose length does not fit a u32
SymbolTooLong ==
    call.fn = "create_market" /\ ~len_fits_u32(call.market_symbol)

\* C15: a call fails exactly when it takes an instance index and the index
\* is >= instances.len(), or it is create_market and the symbol is longer
\* than u32::MAX bytes.  The first failure is the index panic, the second
\* the panic of unwrap on the encoding error.  The nine other builders
\* without an index return a request for every context, the empty instance
\* list included; create_market does for every symbol that fits; the eight
\* with an index do for every index in range.
C15_FailsIffOutOfRangeOrTooLong ==
    call.fn \notin {"none", "try_to_vec"} =>
        /\ result.kind \in {"Instruction", "panic"}
        /\ result.kind = "panic" <=> (OutOfRange \/ SymbolTooLong)
        /\ OutOfRange => result = IndexPanic(Len(ctx.instances), CallIndex)
        /\ SymbolTooLong => result = UnwrapPanic("InvalidInput")
        /\ (call.fn \notin IndexedFns /\ call.fn # "create_market") => Built
        /\ (call.fn = "create_market" /\ len_fits_u32(call.market_symbol)) => Built
        /\ IndexInRange => Built

C15_Witness ==
    /\ call.fn = "create_market"
    /\ Len(ctx.instances) = 0
    /\ call.market_symbol = LongString
    /\ result.kind = "panic"
    /\ result.err = "InvalidInput"

ScalarFns ==
    {"create_market", "add_budget", "withdraw_budget", "open_position",
     "increase_position", "close_position", "collect_garbage", "change_k",
     "rebalance", "transfer_position"}

\* what the same builder returns for the same context, accounts, instance
\* index and optional accounts when every scalar argument is replaced by one
\* fixed value (side Short, the empty symbol, 7 for every number)
ScalarsReplaced ==
    CASE call.fn = "create_market" -> create_market(ctx, << >>, 7, 7, 7)
      [] call.fn = "add_budget" ->
            add_budget(ctx, 7, call.source_owner, call.source_token_account,
                       call.open_positions_account)
      [] call.fn = "withdraw_budget" ->
            withdraw_budget(ctx, 7, call.target_account,
                            call.open_positions_owner_account,
                            call.open_positions_account)
      [] call.fn = "open_position" ->
            open_position(ctx, [call.position EXCEPT !.side = "Short"], 7, 7, 7, 7,
                          call.discount, call.referrer)
      [] call.fn = "increase_position" ->
            increase_position(ctx, 7, 7, call.instance_index, 7,
                              call.position_owner, call.open_positions_account,
                              7, 7, call.discount, call.referrer)
      [] call.fn = "close_position" ->
            close_position(ctx, [call.position EXCEPT !.side = "Short"], 7, 7, 7,
                           7, 7, call.discount, call.referrer)
      [] call.fn = "collect_garbage" ->
            collect_garbage(ctx, call.instance_index, 7, call.target_token_account)
      [] call.fn = "change_k" -> change_k(ctx, 7)
      [] call.fn = "rebalance" ->
            rebalance(ctx, call.user_account, call.user_account_owner,
                      call.instance_index, 7)
      [] call.fn = "transfer_position" ->
            transfer_position(ctx, 7, call.source_user_account,
                              call.source_user_account_owner,
                              call.destination_user_account,
                              call.destination_user_account_owner)

\* C16: the account list and the target program of a request do not depend
\* on the scalar arguments: calls of one builder that agree on the context,
\* the account identities, the instance index and the presence of discount
\* and referrer, and differ in amounts, leverage, prices, slippage, side,
\* position_index, factor, max_iterations or symbol, return the same account
\* list entry by entry and the context's program identity.  Every call is
\* compared with the call that has the scalars replaced, so any two calls
\* that differ in scalars only agree with each other.
C16_AccountsIgnoreScalars ==
    (call.fn \in ScalarFns /\ Built) =>
        LET other == ScalarsReplaced IN
        /\ result.program_id = ctx.audaces_protocol_program_id
        /\ [other EXCEPT !.data = result.data] = result

C16_Witness ==
    /\ call.fn = "collect_garbage"
    /\ Built
    /\ call.max_iterations = 0
    /\ Len(Selected.memory_pages) = 2
    /\ Len(result.accounts) = 8
    /\ ScalarsReplaced.data # result.data

====
